---------------------------- MODULE Spec2Model ----------------------------
(***************************************************************************)
(* A model of coredns-analyzer: the log ingestion / classification /       *)
(* aggregation pipeline of src/src/log_analyzer.rs, its snapshot publisher *)
(* and the tokio watch channel consumers read with get_update; and the     *)
(* terminal front end of src/src/tui.rs: key handling, graph rebuild,      *)
(* filters and ring layout.                                                *)
(*                                                                         *)
(* Strings are sequences of one-character strings, so that suffix          *)
(* matching, trimming, splitting and lower-casing are computed the way the *)
(* code computes them.                                                     *)
(***************************************************************************)
EXTENDS Integers, Sequences, FiniteSets, TLC

(***************************************************************************)
(* Bounds of the model.                                                    *)
(***************************************************************************)
MaxTrailingDots == 2   \* trailing '.' characters put after an input name
MaxEvents == 2         \* classified lines the ingestion task takes
MaxPublishes == 2      \* sends of the publisher
MaxKeys == 4           \* key events the session handles

VARIABLES
    \* ---- classifier harness (extract_domain_name as a pure function) ----
    tlds,          \* the generated TLDS list (src/tlds.rs, written by build.rs)
    cq_name,       \* query name handed to extract_domain_name
    cq_code,       \* response code handed to extract_domain_name
    cq_result,     \* what extract_domain_name returned
    cq_done,       \* TRUE once the classifier has been applied
    \* ---- aggregated state (analyze_loop) ----
    internal_map,  \* Arc<RwLock<HashMap<String, Vec<String>>>>
    external_map,  \* Arc<RwLock<HashMap<String, Vec<String>>>>
    wlock,         \* the map whose write guard the ingestion task holds, or "none"
    rlocks,        \* the maps whose read guard the publisher task holds
    \* ---- ingestion task ----
    ing_pc,        \* "read" | "classify" | "resolve" | "write" | "push"
    ing_line,      \* the line read from the stream (NoLine when none)
    ing_event,     \* (domain_name, is_internal, pod_name) of the line in flight
    events,        \* classified lines taken so far
    lookups,       \* calls of resolve_pod so far
    ing_last,      \* how the item just handled ended: "unmatched" | "nonsuccess" | "unlisted" | "classified" | "error" ("none" while a line is in hand)
    \* ---- publisher task ----
    pub_pc,        \* "read_internal" | "read_external" | "drop" | "send" | "sleep"
    dns_data,      \* the DnsData under construction
    \* ---- watch channel and one consumer (get_update) ----
    chan,          \* [value, version] of the watch channel
    rx_pc,         \* "changed" | "borrow"
    rx_version,    \* the version the receiver has marked as seen
    rx_ret,        \* the payload the last get_update returned
    rx_observed,   \* the channel version that payload was read at
    \* ---- history ----
    last_sent,     \* the payload of the latest sender.send
    publishes,     \* number of sender.send calls so far
    ext_at_internal_copy,  \* external_map at the instant internal_map was copied
    \* ---- terminal front end: the session (tui.rs, test) ----
    tui_pc,        \* "setup" | "loop" | "teardown" | "ok" | "err"
    terminal,      \* what the session holds of the terminal
    running,       \* the loop variable `running`
    keys,          \* key events handled so far
    \* ---- AppState ----
    app_data,      \* data: the DnsData snapshot
    nodes,         \* nodes: node id -> NodeKind
    nodes_order,   \* the order in which self.nodes.values() hands out the ids
    edges,         \* edges: Vec<Edge>
    targets,       \* (tx, ty) of each node: ring radius, slot and slot count
    positions,     \* (x, y) of each node, in hundredths
    rng_seq,       \* the points StdRng::seed_from_u64(42) hands out, in order
    dt,            \* the time between two calls of animate, in milliseconds
    ticks,         \* calls of animate so far
    filters,       \* filters: Filters
    tab,           \* tab
    input_mode,    \* input_mode: InputMode
    input_buffer,  \* input_buffer
    \* ---- locals of the latest recompute_targets ----
    allowed_pods,  \* Option<HashSet<String>>
    lay_externals, \* externals: Vec<String>
    lay_pods,      \* pods: Vec<String>
    lay_services   \* services: Vec<String>

vars == <<tlds, cq_name, cq_code, cq_result, cq_done,
          internal_map, external_map, wlock, rlocks,
          ing_pc, ing_line, ing_event, events, lookups, ing_last,
          pub_pc, dns_data, chan, rx_pc, rx_version, rx_ret, rx_observed,
          last_sent, publishes, ext_at_internal_copy,
          tui_pc, terminal, running, keys,
          app_data, nodes, nodes_order, edges, targets, positions,
          rng_seq, dt, ticks, filters, tab,
          input_mode, input_buffer,
          allowed_pods, lay_externals, lay_pods, lay_services>>

classifier_vars == <<tlds, cq_name, cq_code, cq_result, cq_done>>

pipeline_vars == <<internal_map, external_map, wlock, rlocks,
                   ing_pc, ing_line, ing_event, events, lookups, ing_last,
                   pub_pc, dns_data, chan, rx_pc, rx_version, rx_ret, rx_observed,
                   last_sent, publishes, ext_at_internal_copy>>

(***************************************************************************)
(* Strings: sequences of one-character strings.                            *)
(***************************************************************************)
Last(s) == s[Len(s)]

\* str::ends_with
ends_with(s, suffix) ==
    /\ Len(s) >= Len(suffix)
    /\ SubSeq(s, Len(s) - Len(suffix) + 1, Len(s)) = suffix

\* a strip that takes one trailing c at most (str::strip_suffix)
strip_suffix_once(s, c) ==
    IF s # <<>> /\ Last(s) = c THEN SubSeq(s, 1, Len(s) - 1) ELSE s

\* str::trim_end_matches(c): removes every trailing occurrence of c
RECURSIVE trim_end_matches(_, _)
trim_end_matches(s, c) ==
    IF s # <<>> /\ Last(s) = c
    THEN trim_end_matches(SubSeq(s, 1, Len(s) - 1), c)
    ELSE s

\* str::split(c), collected: the pieces between occurrences of c (at least one)
RECURSIVE split(_, _)
split(s, c) ==
    IF \E i \in 1..Len(s) : s[i] = c
    THEN LET i == CHOOSE j \in 1..Len(s) :
                    s[j] = c /\ \A k \in 1..(j - 1) : s[k] # c
         IN  <<SubSeq(s, 1, i - 1)>> \o split(SubSeq(s, i + 1, Len(s)), c)
    ELSE <<s>>

\* char::to_lowercase on the letters of the model's alphabet
LowerChar(c) ==
    CASE c = "A" -> "a" [] c = "B" -> "b" [] c = "C" -> "c" [] c = "I" -> "i"
      [] c = "L" -> "l" [] c = "M" -> "m" [] c = "O" -> "o" [] c = "S" -> "s"
      [] c = "V" -> "v" [] OTHER -> c

\* str::to_lowercase
to_lowercase(s) == [i \in 1..Len(s) |-> LowerChar(s[i])]

Dots(n) == [i \in 1..n |-> "."]

(***************************************************************************)
(* Query classifier: LogAnalyzer::extract_domain_name.                     *)
(***************************************************************************)
SvcSuffix ==
    <<".", "s", "v", "c", ".", "c", "l", "u", "s", "t", "e", "r",
      ".", "l", "o", "c", "a", "l">>

Unknown == <<"u", "n", "k", "n", "o", "w", "n">>

\* The list build.rs writes: the IANA names, lower-cased.  A sample of it.
IanaSample == { <<"c", "o", "m">>, <<"i", "o">> }

\* Lists the generated file can hold: the sample, and the sample with a
\* "local" entry (the only way the public-suffix rule can match a name the
\* internal rule matches).
TldLists == { IanaSample, IanaSample \cup { <<"l", "o", "c", "a", "l">> } }

TLDS == tlds

\* Option<(String, bool)>
None == [some |-> FALSE, name |-> <<>>, internal |-> FALSE]
Some(name, internal) == [some |-> TRUE, name |-> name, internal |-> internal]

\* the public-suffix rule tried before the internal rule
extract_domain_name_public_first(query_name, response_code) ==
    LET query == trim_end_matches(query_name, ".") IN
    IF /\ \E tld \in TLDS : ends_with(to_lowercase(query), <<".">> \o tld)
       /\ response_code = "NOERROR"
    THEN Some(query, FALSE)
    ELSE IF ends_with(query, SvcSuffix) /\ response_code = "NOERROR"
    THEN Some(Head(split(query, ".")), TRUE)
    ELSE None

\* the External key taken from the lower-cased copy of the name
extract_domain_name_lowercased(query_name, response_code) ==
    LET query == trim_end_matches(query_name, ".") IN
    IF ends_with(query, SvcSuffix) /\ response_code = "NOERROR"
    THEN Some(Head(split(query, ".")), TRUE)
    ELSE IF /\ \E tld \in TLDS : ends_with(to_lowercase(query), <<".">> \o tld)
            /\ response_code = "NOERROR"
    THEN Some(to_lowercase(query), FALSE)
    ELSE None

\* the internal rule without its test of the response code
extract_domain_name_any_code(query_name, response_code) ==
    LET query == trim_end_matches(query_name, ".") IN
    IF ends_with(query, SvcSuffix)
    THEN Some(Head(split(query, ".")), TRUE)
    ELSE IF /\ \E tld \in TLDS : ends_with(to_lowercase(query), <<".">> \o tld)
            /\ response_code = "NOERROR"
    THEN Some(query, FALSE)
    ELSE None

extract_domain_name(query_name, response_code) ==
    LET query == trim_end_matches(query_name, ".") IN
    IF ends_with(query, SvcSuffix) /\ response_code = "NOERROR"
    THEN LET pieces == split(query, ".") IN
         Some(IF pieces # <<>> THEN Head(pieces) ELSE Unknown, TRUE)
    ELSE IF /\ \E tld \in TLDS : ends_with(to_lowercase(query), <<".">> \o tld)
            /\ response_code = "NOERROR"
    THEN Some(query, FALSE)
    ELSE None

\* Inputs of the classifier: a head, a tail and trailing dots.
NameHeads ==
    { <<>>, <<"a">>, <<"A", "b">>, <<"a", ".", "b">> }

NameTails ==
    { <<>>,
      SvcSuffix,
      <<".", "S", "V", "C">> \o SubSeq(SvcSuffix, 5, Len(SvcSuffix)),
      SvcSuffix \o <<".", "c", "o", "m">>,
      <<".", "c", "o", "m">> \o SvcSuffix,
      <<".", "c", "o", "m">>,
      <<".", "C", "o", "M">>,
      <<".", "I", "O">>,
      <<".", "l", "o", "c", "a", "l">>,
      <<".", "l", "a", "n">> }

NameInputs ==
    { h \o t \o Dots(n) : h \in NameHeads, t \in NameTails,
                          n \in 0..MaxTrailingDots } \ { <<>> }

ResponseCodes == { "NOERROR", "NXDOMAIN", "SERVFAIL", "noerror" }


(***************************************************************************)
(* Pod resolver: resolve_pod, over the cluster's pod list.                 *)
(***************************************************************************)
PodA == <<"p", "o", "d", "-", "a">>
PodB == <<"p", "o", "d", "-", "b">>

Ip5 == <<"1", "0", ".", "0", ".", "0", ".", "5">>
Ip7 == <<"1", "0", ".", "0", ".", "0", ".", "7">>
Ip9 == <<"1", "0", ".", "0", ".", "0", ".", "9">>
Port == <<":", "5", "3">>

\* What the API server holds: pod-a and pod-b share an address (host
\* network), one pod carries no metadata.name, no pod owns 10.0.0.9.
ClusterPods ==
    << [has_name |-> TRUE,  name |-> PodA, pod_ip |-> Ip5],
       [has_name |-> TRUE,  name |-> PodB, pod_ip |-> Ip5],
       [has_name |-> FALSE, name |-> <<>>, pod_ip |-> Ip7] >>

\* Api::list with the field selector status.podIP=<value>
RECURSIVE SelectByPodIp(_, _)
SelectByPodIp(pods, value) ==
    IF pods = <<>> THEN <<>>
    ELSE IF Head(pods).pod_ip = value
         THEN <<Head(pods)>> \o SelectByPodIp(Tail(pods), value)
         ELSE SelectByPodIp(Tail(pods), value)

\* pods.list(&lp).await: Ok(pod_list) or Err(_)
ListOutcomes == { "ok", "err" }

resolve_pod(outcome, ip) ==
    LET selector == split(ip, ":")[1]
        items == SelectByPodIp(ClusterPods, selector)
    IN  IF outcome = "ok"
        THEN IF items # <<>> /\ Head(items).has_name
             THEN Head(items).name
             ELSE Unknown
        ELSE Unknown

(***************************************************************************)
(* Lines of the log stream, as the regex of analyze_loop captures them.    *)
(***************************************************************************)
NoLine == [matched |-> FALSE, client_ip |-> <<>>, query_name |-> <<>>,
           response_code |-> "", blank |-> TRUE]

Line(ip, name, code) ==
    [matched |-> TRUE, client_ip |-> ip, query_name |-> name,
     response_code |-> code, blank |-> FALSE]

\* A line the regex does not match
Garbage == [matched |-> FALSE, client_ip |-> <<>>, query_name |-> <<>>,
            response_code |-> "", blank |-> FALSE]

NameInternal == <<"a">> \o SvcSuffix
NameExternal == <<"b", ".", "C", "o", "M">>
NameUnlisted == <<"x", ".", "l", "a", "n">>

LogLines ==
    { Line(ip \o Port, name, code) :
        ip \in { Ip5, Ip9 },
        name \in { NameInternal, NameExternal, NameUnlisted },
        code \in { "NOERROR", "NXDOMAIN" } }
    \cup { Line(Ip7 \o Port, NameInternal \o Dots(1), "NOERROR"),
           Line(Ip5, NameExternal \o Dots(1), "SERVFAIL"),
           Garbage }

\* The lines of LogLines, and every input name with every response code
\* other than NOERROR.
LogLinesAnyName ==
    LogLines \cup { Line(Ip5 \o Port, name, code) :
                      name \in NameInputs,
                      code \in ResponseCodes \ { "NOERROR" } }

\* parse_infos: the four capture groups (all of them always take part)
parse_infos(line) ==
    [some |-> TRUE, client_ip |-> line.client_ip,
     query_name |-> line.query_name, response_code |-> line.response_code]

(***************************************************************************)
(* HashMap<String, Vec<String>>                                            *)
(***************************************************************************)
EmptyMap == <<>>

\* a map that keeps each value once per key
EntryPushDeduplicated(map, key, value) ==
    IF key \in DOMAIN map
    THEN IF \E i \in 1..Len(map[key]) : map[key][i] = value
         THEN map
         ELSE [map EXCEPT ![key] = Append(@, value)]
    ELSE [k \in DOMAIN map \cup {key} |->
            IF k = key THEN <<value>> ELSE map[k]]

\* an insert that puts the value in front of the sequence
EntryPushFront(map, key, value) ==
    IF key \in DOMAIN map
    THEN [map EXCEPT ![key] = <<value>> \o @]
    ELSE [k \in DOMAIN map \cup {key} |->
            IF k = key THEN <<value>> ELSE map[k]]

\* map.entry(key).or_insert_with(Vec::new).push(value)
EntryPush(map, key, value) ==
    IF key \in DOMAIN map
    THEN [map EXCEPT ![key] = Append(@, value)]
    ELSE [k \in DOMAIN map \cup {key} |->
            IF k = key THEN <<value>> ELSE map[k]]

(***************************************************************************)
(* tokio::sync::watch                                                      *)
(***************************************************************************)
\* String::from("asd"), the value the channel is created with
Placeholder == [kind |-> "asd", internal |-> EmptyMap, external |-> EmptyMap]

\* serde_json::to_string(&dns_data): the JSON object of the two maps
to_string(data) ==
    [kind |-> "json", internal |-> data.internal, external |-> data.external]

\* watch::channel(init)
WatchChannel(init) == [value |-> init, version |-> 0]

\* a channel that keeps a value the consumer has not read yet
WatchSendKeepUnread(ch, msg) ==
    IF ch.version # rx_observed
    THEN [ch EXCEPT !.version = @ + 1]
    ELSE [value |-> msg, version |-> ch.version + 1]

\* Sender::send: the slot is overwritten and the version moves on
WatchSend(ch, msg) == [value |-> msg, version |-> ch.version + 1]

\* a receiver that does not wait
WatchHasChangedAlways(ch, seen) == TRUE

\* what Receiver::changed waits for
WatchHasChanged(ch, seen) == ch.version # seen

\* Receiver::borrow: the slot's value; the seen version is left alone
WatchBorrow(ch) == ch.value


(***************************************************************************)
(* Terminal front end (tui.rs): strings, keys and options.                 *)
(***************************************************************************)
\* str::contains(pat)
contains(s, pat) ==
    \E i \in 0..(Len(s) - Len(pat)) : SubSeq(s, i + 1, i + Len(pat)) = pat

\* str::trim_start on the model's alphabet, whose only white space is ' '
RECURSIVE trim_start(_)
trim_start(s) ==
    IF s # <<>> /\ Head(s) = " " THEN trim_start(Tail(s)) ELSE s

\* str::trim
trim(s) == trim_end_matches(trim_start(s), " ")

\* Option<String>
FilterNone == [some |-> FALSE, val |-> <<>>]
FilterSome(s) == [some |-> TRUE, val |-> s]

\* a commit that stores whatever it is given, the empty string included
non_empty_always_some(s) == FilterSome(s)

\* non_empty
non_empty(s) ==
    IF s = <<>> THEN FilterNone ELSE FilterSome(s)

\* Filters::default()
FiltersDefault ==
    [pod |-> FilterNone, service |-> FilterNone, external |-> FilterNone]

\* crossterm KeyEvent: code, the character of a Char code, modifiers
Key(code, ch, modifiers) == [code |-> code, ch |-> ch, modifiers |-> modifiers]

KeyChars == { "q", "1", "2", "/", "s", "e", "c", " " }

Keys ==
    { Key("Char", c, "NONE") : c \in KeyChars }
        \cup { Key("Char", "c", "CONTROL"),
               Key("Esc", "", "NONE"),
               Key("Enter", "", "NONE"),
               Key("Backspace", "", "NONE"),
               Key("Tab", "", "NONE") }

InputModes ==
    { "Normal", "FilterPod", "FilterService", "FilterExternal", "ClearConfirm" }

\* NodeKind
NodeKinds == { "External", "Pod", "Service" }

\* let (r_ext, r_pod, r_svc) = (0.95, 0.55, 0.15), in hundredths
r_ext == 95
r_pod == 55
r_svc == 15

\* the ring radius of a node kind
Radius(kind) ==
    CASE kind = "External" -> r_ext
      [] kind = "Pod" -> r_pod
      [] kind = "Service" -> r_svc

\* Permutations of a finite set, as sequences: the orders in which a
\* HashMap may hand out its entries
RECURSIVE Orders(_)
Orders(S) ==
    IF S = {} THEN { <<>> }
    ELSE UNION { { <<x>> \o o : o \in Orders(S \ {x}) } : x \in S }

Range(seq) == { seq[i] : i \in 1..Len(seq) }

(***************************************************************************)
(* AppState::rebuild_graph.                                                *)
(***************************************************************************)
\* DnsData
DnsData(internal, external) == [internal |-> internal, external |-> external]

\* the entries of a map as the loop `for (pod, xs) in &map { .. for x in xs }`
\* visits them when the map hands out its keys in `order`: the key first,
\* then each element of its list
RECURSIVE Visits(_, _, _)
Visits(map, order, layer) ==
    IF order = <<>> THEN <<>>
    ELSE LET pod == Head(order) IN
         <<[layer |-> layer, item |-> "key", pod |-> pod, id |-> pod]>>
             \o [i \in 1..Len(map[pod]) |->
                   [layer |-> layer, item |-> "elem", pod |-> pod,
                    id |-> map[pod][i]]]
             \o Visits(map, Tail(order), layer)

\* self.nodes.entry(id).or_insert(Node { kind, .. })
OrInsert(kinds, id, kind) ==
    IF id \in DOMAIN kinds THEN kinds
    ELSE [k \in DOMAIN kinds \cup {id} |-> IF k = id THEN kind ELSE kinds[k]]

Edge(from, to) == [from |-> from, to |-> to]

\* Edge { from: d.clone(), to: pod.clone() }
ExternalEdge(domain, pod) == Edge(domain, pod)

EmptyGraph == [kinds |-> <<>>, seen |-> {}, edges |-> <<>>]

\* one iteration of the loops of rebuild_graph
VisitStep(g, v) ==
    IF v.item = "key"
    THEN [kinds |-> OrInsert(g.kinds, v.id, "Pod"),
          seen |-> IF v.layer = "internal" THEN g.seen \cup {v.id} ELSE g.seen,
          edges |-> g.edges]
    ELSE [kinds |-> IF v.id \in g.seen THEN g.kinds
                    ELSE OrInsert(g.kinds, v.id,
                                  IF v.layer = "internal" THEN "Service"
                                  ELSE "External"),
          seen |-> g.seen \cup {v.id},
          edges |-> Append(g.edges,
                           IF v.layer = "internal" THEN Edge(v.pod, v.id)
                           ELSE ExternalEdge(v.id, v.pod))]

RECURSIVE VisitAll(_, _)
VisitAll(g, visits) ==
    IF visits = <<>> THEN g
    ELSE VisitAll(VisitStep(g, Head(visits)), Tail(visits))

\* the node and edge part of rebuild_graph, the two maps handing out their
\* keys in the orders int_order and ext_order
rebuild_graph(data, int_order, ext_order) ==
    VisitAll(EmptyGraph,
             Visits(data.internal, int_order, "internal")
                 \o Visits(data.external, ext_order, "external"))

\* n.x = rng.random_range(..); n.tx = n.x: the k-th node that
\* self.nodes.values_mut() hands out gets the k-th point of StdRng seed 42
Sprinkled(k) == [ring |-> 0, i |-> k, n |-> 0]

\* place_on_circle: the i-th of n ids on the ring of `radius`
OnCircle(radius, i, n) == [ring |-> radius, i |-> i, n |-> n]

Index(seq, x) == CHOOSE i \in 1..Len(seq) : seq[i] = x

SprinkledTargets(order) ==
    [id \in Range(order) |-> Sprinkled(Index(order, id))]

\* let tick_rate = Duration::from_millis(16)
tick_rate == 16

\* The points rng.random_range(-1.0..1.0) yields, pair by pair, in
\* hundredths.  The generator is seeded with 42 in every rebuild, so the
\* sequence is the same each time; the model takes it as given.
RngSample == <<<<-62, 37>>, <<81, -100>>, <<8, 99>>, <<-33, -5>>>>

\* n.x, n.y of the sprinkled nodes: the k-th node of values_mut() gets
\* the k-th point
SprinkledPositions(order, rng) ==
    [id \in Range(order) |-> rng[Index(order, id)]]

(***************************************************************************)
(* AppState::recompute_targets and place_on_circle.                        *)
(***************************************************************************)
\* Option<HashSet<String>>
AllowedNone == [some |-> FALSE, set |-> {}]
AllowedSome(S) == [some |-> TRUE, set |-> S]

\* the keys of a map with at least one list element containing pat
KeysWithElementContaining(map, pat) ==
    { p \in DOMAIN map : \E i \in 1..Len(map[p]) : contains(map[p][i], pat) }

\* allowed_pods = Some(match allowed_pods { Some(a) => &a & &pods, None => pods })
Narrow(allowed, S) ==
    IF allowed.some THEN AllowedSome(allowed.set \cap S) ELSE AllowedSome(S)

\* allowed_pods = Some(HashSet::from([p.clone()]))
PodFilter(data, p) == AllowedSome({ p })

\* a layout that starts from the allowed set of the layout before
AllowedStartCarried(previous) == previous

\* let mut allowed_pods: Option<HashSet<String>> = None
AllowedStart(previous) == AllowedNone

\* the `allowed_pods` of recompute_targets (lines 312-353)
AllowedPods(data, f, start) ==
    LET a0 == IF f.pod.some THEN PodFilter(data, f.pod.val) ELSE start
        a1 == IF f.service.some
              THEN Narrow(a0, KeysWithElementContaining(data.internal,
                                                        f.service.val))
              ELSE a0
    IN  IF f.external.some
        THEN Narrow(a1, KeysWithElementContaining(data.external, f.external.val))
        ELSE a1

\* self.edges.iter().any(|e| e.from == from && e.to == to)
HasEdge(edge_list, from, to) ==
    \E i \in 1..Len(edge_list) : edge_list[i] = Edge(from, to)

\* the second .filter of the three collections of recompute_targets
\* (lines 356-397): whether the node `id` of kind `kind` is kept
Kept(kind, id, allowed, edge_list) ==
    IF ~allowed.some THEN TRUE
    ELSE CASE kind = "External" ->
                \E p \in allowed.set : HasEdge(edge_list, id, p)
           [] kind = "Pod" -> id \in allowed.set
           [] kind = "Service" ->
                \E p \in allowed.set : HasEdge(edge_list, p, id)

\* a layout that keeps every node of the kind whatever the allowed set
LayerUnfiltered(kind, kinds, order, allowed, edge_list) ==
    SelectSeq(order, LAMBDA id : kinds[id] = kind)

\* self.nodes.values().filter(kind).filter(allowed).map(id).collect()
Layer(kind, kinds, order, allowed, edge_list) ==
    SelectSeq(order, LAMBDA id : /\ kinds[id] = kind
                                  /\ Kept(kind, id, allowed, edge_list))

\* place_on_circle(app, ids, radius)
place_on_circle(tgts, ids, radius) ==
    [id \in DOMAIN tgts |->
        IF id \in Range(ids)
        THEN OnCircle(radius, Index(ids, id) - 1, Len(ids))
        ELSE tgts[id]]

\* recompute_targets: the allowed set, the three collections and the targets
recompute_targets(data, f, kinds, order, edge_list, tgts, previous) ==
    LET allowed == AllowedPods(data, f, AllowedStart(previous))
        exts == Layer("External", kinds, order, allowed, edge_list)
        pds == Layer("Pod", kinds, order, allowed, edge_list)
        svcs == Layer("Service", kinds, order, allowed, edge_list)
    IN  [allowed |-> allowed,
         externals |-> exts,
         pods |-> pds,
         services |-> svcs,
         targets |-> place_on_circle(
                         place_on_circle(
                             place_on_circle(tgts, exts, r_ext), pds, r_pod),
                         svcs, r_svc)]

(***************************************************************************)
(* The session (test) and AppState.                                        *)
(***************************************************************************)
app_vars == <<app_data, nodes, nodes_order, edges, targets, positions,
              filters, tab, input_mode, input_buffer>>
anim_vars == <<rng_seq, dt, ticks>>
layout_vars == <<allowed_pods, lay_externals, lay_pods, lay_services>>
tui_vars == <<tui_pc, terminal, running, keys, app_vars, anim_vars,
              layout_vars>>

\* AppState::default(), before the session has set anything up
TuiIdle ==
    /\ tui_pc = "setup"
    /\ terminal = {}
    /\ running = FALSE
    /\ keys = 0
    /\ app_data = DnsData(EmptyMap, EmptyMap)
    /\ nodes = <<>>
    /\ nodes_order = <<>>
    /\ positions = <<>>
    /\ rng_seq = RngSample
    /\ dt = tick_rate
    /\ ticks = 0
    /\ edges = <<>>
    /\ targets = <<>>
    /\ filters = FiltersDefault
    /\ tab = 0
    /\ input_mode = "Normal"
    /\ input_buffer = <<>>
    /\ allowed_pods = AllowedNone
    /\ lay_externals = <<>>
    /\ lay_pods = <<>>
    /\ lay_services = <<>>

(***************************************************************************)
(* Initial states.                                                         *)
(***************************************************************************)
NoEvent == [domain_name |-> <<>>, is_internal |-> FALSE,
            client_ip |-> <<>>, pod_name |-> <<>>]

EmptyData == [internal |-> EmptyMap, external |-> EmptyMap]

ClassifierIdle ==
    /\ cq_name = <<>>
    /\ cq_code = ""
    /\ cq_result = None
    /\ cq_done = FALSE

\* LogAnalyzer::new and the head of analyze_loop, up to the two spawns
PipelineInit ==
    /\ internal_map = EmptyMap
    /\ external_map = EmptyMap
    /\ wlock = "none"
    /\ rlocks = {}
    /\ ing_pc = "read"
    /\ ing_line = NoLine
    /\ ing_event = NoEvent
    /\ events = 0
    /\ lookups = 0
    /\ ing_last = "none"
    /\ pub_pc = "read_internal"
    /\ dns_data = EmptyData
    /\ chan = WatchChannel(Placeholder)
    /\ rx_pc = "changed"
    /\ rx_version = 0
    /\ rx_ret = Placeholder
    /\ rx_observed = 0
    /\ last_sent = Placeholder
    /\ publishes = 0
    /\ ext_at_internal_copy = EmptyMap

Init ==
    /\ tlds = IanaSample
    /\ ClassifierIdle
    /\ PipelineInit
    /\ TuiIdle

(***************************************************************************)
(* Ingestion task: the first tokio::spawn of analyze_loop.                 *)
(***************************************************************************)
ing_vars == <<ing_pc, ing_line, ing_event, events, lookups, ing_last>>
pub_vars == <<pub_pc, dns_data, ext_at_internal_copy>>
sent_vars == <<last_sent, publishes>>
rx_vars == <<rx_pc, rx_version, rx_ret, rx_observed>>

\* logs.try_next().await = Ok(Some(line)), the line one of `lines`
ReadLineFrom(lines) ==
    /\ ing_pc = "read"
    /\ events < MaxEvents
    /\ \E line \in lines : ing_line' = line
    /\ ing_last' = "none"
    /\ ing_pc' = "classify"
    /\ UNCHANGED <<classifier_vars, tui_vars, internal_map, external_map, wlock, rlocks,
                   ing_event, events, lookups,
                   pub_vars, chan, rx_vars, sent_vars>>

IngestReadLine == ReadLineFrom(LogLines)

IngestReadAnyLine == ReadLineFrom(LogLinesAnyName)

\* logs.try_next().await = Ok(None): continue
IngestReadNone ==
    /\ ing_pc = "read"
    /\ UNCHANGED <<classifier_vars, tui_vars, internal_map, external_map, wlock, rlocks,
                   ing_vars, pub_vars, chan, rx_vars, sent_vars>>

\* Where the ingestion task goes after the Err arm.  A task that gave up on
\* the first stream error (`?` or `break` in place of `continue`) would end.
AfterStreamErrorStopped == "stopped"

\* Err(err) => { log::error!("{}", err); continue; }
AfterStreamError == "read"

\* logs.try_next().await = Err(err): log::error!, continue
IngestReadErr ==
    /\ ing_pc = "read"
    /\ ing_last' = "error"
    /\ ing_pc' = AfterStreamError
    /\ UNCHANGED <<classifier_vars, tui_vars, internal_map, external_map, wlock, rlocks,
                   ing_line, ing_event, events, lookups,
                   pub_vars, chan, rx_vars, sent_vars>>

\* re.captures, parse_infos, extract_domain_name
IngestClassify ==
    /\ ing_pc = "classify"
    /\ ing_line' = NoLine
    /\ IF ~ing_line.matched
       THEN /\ ing_pc' = "read"
            /\ ing_last' = "unmatched"
            /\ UNCHANGED <<ing_event, events>>
       ELSE LET infos == parse_infos(ing_line)
                found == extract_domain_name(infos.query_name,
                                             infos.response_code)
            IN  IF infos.some /\ found.some
                THEN /\ ing_event' = [domain_name |-> found.name,
                                      is_internal |-> found.internal,
                                      client_ip |-> infos.client_ip,
                                      pod_name |-> <<>>]
                     /\ events' = events + 1
                     /\ ing_last' = "classified"
                     /\ ing_pc' = "resolve"
                ELSE /\ ing_pc' = "read"
                     /\ ing_last' = IF infos.response_code = "NOERROR"
                                    THEN "unlisted" ELSE "nonsuccess"
                     /\ UNCHANGED <<ing_event, events>>
    /\ UNCHANGED <<classifier_vars, tui_vars, internal_map, external_map, wlock, rlocks,
                   lookups,
                   pub_vars, chan, rx_vars, sent_vars>>

\* let pod_name = resolve_pod(&client, client_ip).await
IngestResolve ==
    /\ ing_pc = "resolve"
    /\ \E outcome \in ListOutcomes :
         ing_event' = [ing_event EXCEPT
                         !.pod_name = resolve_pod(outcome, ing_event.client_ip)]
    /\ lookups' = lookups + 1
    /\ ing_pc' = "write"
    /\ UNCHANGED <<classifier_vars, tui_vars, internal_map, external_map, wlock, rlocks,
                   ing_line, events, ing_last,
                   pub_vars, chan, rx_vars, sent_vars>>

\* let map_to_update = if is_internal { &internal_clone } else { &external_clone }
map_to_update(event) == IF event.is_internal THEN "internal" ELSE "external"

\* map_to_update.write().await: granted when no read guard is out
IngestWrite ==
    /\ ing_pc = "write"
    /\ map_to_update(ing_event) \notin rlocks
    /\ wlock' = map_to_update(ing_event)
    /\ ing_pc' = "push"
    /\ UNCHANGED <<classifier_vars, tui_vars, internal_map, external_map, rlocks,
                   ing_line, ing_event, events, lookups, ing_last,
                   pub_vars, chan, rx_vars, sent_vars>>

\* .entry(domain_name).or_insert_with(Vec::new).push(pod_name); the write
\* guard is dropped at the end of the statement
IngestPush ==
    /\ ing_pc = "push"
    /\ IF wlock = "internal"
       THEN /\ internal_map' = EntryPush(internal_map, ing_event.domain_name,
                                         ing_event.pod_name)
            /\ UNCHANGED external_map
       ELSE /\ external_map' = EntryPush(external_map, ing_event.domain_name,
                                         ing_event.pod_name)
            /\ UNCHANGED internal_map
    /\ wlock' = "none"
    /\ ing_event' = NoEvent
    /\ ing_pc' = "read"
    /\ UNCHANGED <<classifier_vars, tui_vars, rlocks,
                   ing_line, events, lookups, ing_last,
                   pub_vars, chan, rx_vars, sent_vars>>

(***************************************************************************)
(* Publisher task: the second tokio::spawn of analyze_loop.                *)
(***************************************************************************)
\* The read guards the publisher holds once it has copied map m.  The guard
\* returned by `m.read().await` is a temporary of the statement
\* `let dns_data = DnsData { internal: .., external: .. };`: Rust drops the
\* temporaries of a statement at its end, so the guard taken for the first
\* field is still alive while the second field is evaluated.
GuardsDroppedAfterCopy(guards, m) == guards

GuardsAfterCopy(guards, m) == guards \cup { m }

\* internal: (*internal_map.read().await).clone()
PubReadInternal ==
    /\ pub_pc = "read_internal"
    /\ publishes < MaxPublishes
    /\ wlock # "internal"
    /\ rlocks' = GuardsAfterCopy(rlocks, "internal")
    /\ dns_data' = [dns_data EXCEPT !.internal = internal_map]
    /\ ext_at_internal_copy' = external_map
    /\ pub_pc' = "read_external"
    /\ UNCHANGED <<classifier_vars, tui_vars, internal_map, external_map, wlock,
                   ing_vars, chan, rx_vars, sent_vars>>

\* external: (*external_map.read().await).clone()
PubReadExternal ==
    /\ pub_pc = "read_external"
    /\ wlock # "external"
    /\ rlocks' = GuardsAfterCopy(rlocks, "external")
    /\ dns_data' = [dns_data EXCEPT !.external = external_map]
    /\ pub_pc' = "drop"
    /\ UNCHANGED <<classifier_vars, tui_vars, internal_map, external_map, wlock,
                   ing_vars, ext_at_internal_copy, chan, rx_vars, sent_vars>>

\* the `;` of the let statement: its temporaries (both guards) are dropped
PubDropGuards ==
    /\ pub_pc = "drop"
    /\ rlocks' = {}
    /\ pub_pc' = "send"
    /\ UNCHANGED <<classifier_vars, tui_vars, internal_map, external_map, wlock,
                   ing_vars, dns_data, ext_at_internal_copy, chan, rx_vars,
                   sent_vars>>

\* match serde_json::to_string(&dns_data) { Ok(msg) => _ = sender.send(msg), .. }
PubSend ==
    /\ pub_pc = "send"
    /\ chan' = WatchSend(chan, to_string(dns_data))
    /\ last_sent' = to_string(dns_data)
    /\ publishes' = publishes + 1
    /\ pub_pc' = "sleep"
    /\ UNCHANGED <<classifier_vars, tui_vars, internal_map, external_map, wlock, rlocks,
                   ing_vars, dns_data, ext_at_internal_copy, rx_vars>>

\* sleep(Duration::from_secs(2)).await, then the end of the loop body, where
\* dns_data goes out of scope
PubSleep ==
    /\ pub_pc = "sleep"
    /\ dns_data' = EmptyData
    /\ ext_at_internal_copy' = EmptyMap
    /\ pub_pc' = "read_internal"
    /\ UNCHANGED <<classifier_vars, tui_vars, internal_map, external_map, wlock, rlocks,
                   ing_vars, chan, rx_vars, sent_vars>>

(***************************************************************************)
(* A consumer: LogAnalyzer::get_update, called in a loop (search_stream).  *)
(***************************************************************************)
\* self.receiver.changed().await?
RxChanged ==
    /\ rx_pc = "changed"
    /\ WatchHasChanged(chan, rx_version)
    /\ rx_version' = chan.version
    /\ rx_pc' = "borrow"
    /\ UNCHANGED <<classifier_vars, tui_vars, internal_map, external_map, wlock, rlocks,
                   ing_vars, pub_vars, chan, rx_ret, rx_observed, sent_vars>>

\* Ok(self.receiver.borrow().clone())
RxBorrow ==
    /\ rx_pc = "borrow"
    /\ rx_ret' = WatchBorrow(chan)
    /\ rx_observed' = chan.version
    /\ rx_pc' = "changed"
    /\ UNCHANGED <<classifier_vars, tui_vars, internal_map, external_map, wlock, rlocks,
                   ing_vars, pub_vars, chan, rx_version, sent_vars>>

Next ==
    \/ IngestReadLine
    \/ IngestReadNone
    \/ IngestReadErr
    \/ IngestClassify
    \/ IngestResolve
    \/ IngestWrite
    \/ IngestPush
    \/ PubReadInternal
    \/ PubReadExternal
    \/ PubDropGuards
    \/ PubSend
    \/ PubSleep
    \/ RxChanged
    \/ RxBorrow

Spec == Init /\ [][Next]_vars

(***************************************************************************)
(* The ingestion task alone, its stream carrying every input name with     *)
(* every response code other than NOERROR.                                 *)
(***************************************************************************)
IngestNext ==
    \/ IngestReadAnyLine
    \/ IngestReadNone
    \/ IngestReadErr
    \/ IngestClassify
    \/ IngestResolve
    \/ IngestWrite
    \/ IngestPush

IngestSpec == Init /\ [][IngestNext]_vars

(***************************************************************************)
(* The classifier alone, over every input name, response code and list.    *)
(***************************************************************************)
ClassifyInit ==
    /\ tlds \in TldLists
    /\ cq_name \in NameInputs
    /\ cq_code \in ResponseCodes
    /\ cq_result = None
    /\ cq_done = FALSE
    /\ PipelineInit
    /\ TuiIdle

Classify ==
    /\ ~cq_done
    /\ cq_result' = extract_domain_name(cq_name, cq_code)
    /\ cq_done' = TRUE
    /\ UNCHANGED <<tlds, cq_name, cq_code, pipeline_vars, tui_vars>>

ClassifyNext == Classify

ClassifySpec == ClassifyInit /\ [][ClassifyNext]_vars

(***************************************************************************)
(* The terminal front end: AppState methods and handle_key.                *)
(***************************************************************************)
\* the layout part of the state after self.recompute_targets()
Relayout(data, f, kinds, order, edge_list, tgts) ==
    LET lay == recompute_targets(data, f, kinds, order, edge_list, tgts,
                                 allowed_pods)
    IN  /\ targets' = lay.targets
        /\ allowed_pods' = lay.allowed
        /\ lay_externals' = lay.externals
        /\ lay_pods' = lay.pods
        /\ lay_services' = lay.services

\* AppState::update_data(data): self.data = data; rebuild_graph();
\* recompute_targets().  The three maps hand out their entries in any order.
update_data(data) ==
    /\ app_data' = data
    /\ \E int_order \in Orders(DOMAIN data.internal),
          ext_order \in Orders(DOMAIN data.external) :
         LET g == rebuild_graph(data, int_order, ext_order) IN
         /\ nodes' = g.kinds
         /\ edges' = g.edges
         /\ \E order \in Orders(DOMAIN g.kinds) :
              /\ nodes_order' = order
              /\ positions' = SprinkledPositions(order, rng_seq)
              /\ Relayout(data, filters, g.kinds, order, g.edges,
                          SprinkledTargets(order))

\* node ids of the model
Q1 == <<"q", "1">>
Q2 == <<"q", "2">>
S1 == <<"s", "1">>
E1 == <<"e", "1">>

\* the mode a filter-entry key of Normal mode opens, "" for any other key
EntryMode(key) ==
    IF key.code # "Char" THEN ""
    ELSE CASE key.ch = "/" -> "FilterPod"
           [] key.ch = "s" -> "FilterService"
           [] key.ch = "e" -> "FilterExternal"
           [] OTHER -> ""

\* (KeyCode::Char('q'), _) | (KeyCode::Esc, _)
IsQuitKey(key) == (key.code = "Char" /\ key.ch = "q") \/ key.code = "Esc"

\* a clear combo that takes 'c' with any modifiers, or none
IsClearComboAnyModifier(key) == key.code = "Char" /\ key.ch = "c"

\* (KeyCode::Char('c'), KeyModifiers::CONTROL)
IsClearCombo(key) ==
    key.code = "Char" /\ key.ch = "c" /\ key.modifiers = "CONTROL"

\* a handler whose quit arm is tried before the match on the input mode
QuitsInAnyMode(mode, key) == IsQuitKey(key)

\* handle_key returns Ok(false): only the first arm of the Normal match
Quits(mode, key) == mode = "Normal" /\ IsQuitKey(key)

\* the filters after KeyCode::Enter in `mode` with the buffer `buffer`
CommittedFilters(f, mode, buffer) ==
    CASE mode = "FilterPod" -> [f EXCEPT !.pod = non_empty(trim(buffer))]
      [] mode = "FilterService" ->
            [f EXCEPT !.service = non_empty(trim(buffer))]
      [] mode = "FilterExternal" ->
            [f EXCEPT !.external = non_empty(trim(buffer))]
      [] mode = "ClearConfirm" -> FiltersDefault
      [] OTHER -> f

\* a delete key that empties the buffer
PopAll(s) == <<>>

\* input_buffer.pop()
Pop(s) == IF s = <<>> THEN s ELSE SubSeq(s, 1, Len(s) - 1)

\* a clear that leaves the buffer as it is
clear_nothing(buffer) == buffer

\* input_buffer.clear()
clear(buffer) == <<>>

graph_vars == <<app_data, nodes, nodes_order, edges, positions, anim_vars>>

\* handle_key(key, &mut app), and `running = handle_key(..)?` of the loop
HandleKey(key) ==
    /\ tui_pc = "loop"
    /\ running
    /\ keys < MaxKeys
    /\ keys' = keys + 1
    /\ running' = ~Quits(input_mode, key)
    /\ IF input_mode = "Normal"
       THEN /\ tab' = IF key.code = "Char" /\ key.ch = "1" THEN 0
                      ELSE IF key.code = "Char" /\ key.ch = "2" THEN 1
                      ELSE tab
            /\ input_mode' = IF EntryMode(key) # "" THEN EntryMode(key)
                             ELSE IF IsClearCombo(key) THEN "ClearConfirm"
                             ELSE "Normal"
            /\ input_buffer' = IF EntryMode(key) # ""
                               THEN clear(input_buffer)
                               ELSE input_buffer
            /\ UNCHANGED <<filters, targets, layout_vars>>
       ELSE /\ tab' = tab
            /\ CASE key.code = "Esc" ->
                      /\ input_mode' = "Normal"
                      /\ input_buffer' = clear(input_buffer)
                      /\ UNCHANGED <<filters, targets, layout_vars>>
                 [] key.code = "Enter" ->
                      /\ filters' = CommittedFilters(filters, input_mode,
                                                     input_buffer)
                      /\ input_mode' = "Normal"
                      /\ input_buffer' = clear(input_buffer)
                      /\ Relayout(app_data, filters', nodes, nodes_order,
                                  edges, targets)
                 [] key.code = "Backspace" ->
                      /\ input_buffer' = Pop(input_buffer)
                      /\ UNCHANGED <<input_mode, filters, targets, layout_vars>>
                 [] key.code = "Char" ->
                      /\ input_buffer' = Append(input_buffer, key.ch)
                      /\ UNCHANGED <<input_mode, filters, targets, layout_vars>>
                 [] OTHER ->
                      UNCHANGED <<input_mode, input_buffer, filters, targets,
                                  layout_vars>>
    /\ UNCHANGED <<tui_pc, terminal, graph_vars, classifier_vars,
                   pipeline_vars>>

TuiKey == \E key \in Keys : HandleKey(key)

\* filter texts typed as a whole
TypedFilters ==
    { <<"FilterPod", Q1>>, <<"FilterService", <<"s">> >>,
      <<"FilterExternal", <<"e">> >> }

\* The first filter of a session, typed and committed in one go: the entry
\* key of `mode` in Normal mode, the characters of `text`, then Enter.
\* These are handle_key's arms at lines 165-176, 214-216 and 191-210 in a
\* row; the key events are not counted against MaxKeys.
TypeFilter ==
    /\ tui_pc = "loop"
    /\ running
    /\ input_mode = "Normal"
    /\ keys = 0
    /\ filters = FiltersDefault
    /\ \E typed \in TypedFilters :
         /\ filters' = CommittedFilters(filters, typed[1], typed[2])
         /\ Relayout(app_data, filters', nodes, nodes_order, edges, targets)
    /\ input_buffer' = <<>>
    /\ UNCHANGED <<tui_pc, terminal, running, keys, tab, input_mode,
                   graph_vars, classifier_vars, pipeline_vars>>


\* the `demo` snapshot of test, cut down to one pod with one internal and
\* one external domain
DemoData == DnsData((Q1 :> <<S1>>), (Q1 :> <<E1>>))

\* snapshots handed to update_data: empty, the demo, two pods of one
\* service, repeated domains, and ids that occur in more than one role
Snapshots ==
    { DnsData(EmptyMap, EmptyMap),
      DemoData,
      DnsData((Q1 :> <<S1>>) @@ (Q2 :> <<S1>>), EmptyMap),
      DnsData((Q1 :> <<S1, S1>>), (Q1 :> <<E1, E1>>)),
      DnsData((Q1 :> <<Q2>>) @@ (Q2 :> <<Q1>>), EmptyMap),
      DnsData((Q1 :> <<S1>>), (Q1 :> <<S1>>)),
      DnsData(EmptyMap, (Q1 :> <<Q2>>) @@ (Q2 :> <<E1>>)) }

\* Filters values a session can hold when a snapshot arrives
FilterInputs ==
    [pod : { FilterNone, FilterSome(<<"q">>), FilterSome(Q1),
             FilterSome(<<"1">>) },
     service : { FilterNone, FilterSome(<<"s">>), FilterSome(<<"2">>) },
     external : { FilterNone, FilterSome(<<"e">>) }]

\* raw mode, the alternate screen and mouse capture
TerminalResources == {"raw_mode", "alternate_screen", "mouse_capture"}

\* The set-up of test when nothing fails (lines 51-63): enable_raw_mode,
\* execute!(EnterAlternateScreen, EnableMouseCapture), Terminal::new,
\* app.update_data(demo), let mut running = true.
SessionSetup ==
    /\ tui_pc = "setup"
    /\ terminal' = TerminalResources
    /\ update_data(DemoData)
    /\ running' = TRUE
    /\ tui_pc' = "loop"
    /\ UNCHANGED <<keys, anim_vars, filters, tab, input_mode, input_buffer,
                   classifier_vars, pipeline_vars>>

\* app.update_data(new_data), a fresh snapshot handed to the front end
UpdateData ==
    /\ \E data \in Snapshots : update_data(data)
    /\ UNCHANGED <<tui_pc, terminal, running, keys, anim_vars, filters, tab,
                   input_mode, input_buffer, classifier_vars, pipeline_vars>>

(***************************************************************************)
(* The session: set-up, then key events.                                   *)
(***************************************************************************)
TuiInit ==
    /\ tlds = IanaSample
    /\ ClassifierIdle
    /\ PipelineInit
    /\ TuiIdle

TuiNext ==
    \/ SessionSetup
    \/ TypeFilter
    \/ TuiKey

TuiSpec == TuiInit /\ [][TuiNext]_vars

(***************************************************************************)
(* update_data over every snapshot, under every Filters value.             *)
(***************************************************************************)
GraphInit ==
    /\ tlds = IanaSample
    /\ ClassifierIdle
    /\ PipelineInit
    /\ tui_pc = "setup"
    /\ terminal = {}
    /\ running = FALSE
    /\ keys = 0
    /\ app_data = DnsData(EmptyMap, EmptyMap)
    /\ nodes = <<>>
    /\ nodes_order = <<>>
    /\ positions = <<>>
    /\ rng_seq = RngSample
    /\ dt = tick_rate
    /\ ticks = 0
    /\ edges = <<>>
    /\ targets = <<>>
    /\ filters \in FilterInputs
    /\ tab = 0
    /\ input_mode = "Normal"
    /\ input_buffer = <<>>
    /\ allowed_pods = AllowedNone
    /\ lay_externals = <<>>
    /\ lay_pods = <<>>
    /\ lay_services = <<>>

GraphNext == UpdateData

GraphSpec == GraphInit /\ [][GraphNext]_vars


(***************************************************************************)
(* Properties.                                                             *)
(***************************************************************************)
IsPrefix(s, t) == Len(s) <= Len(t) /\ SubSeq(t, 1, Len(s)) = s

\* the steps of the tasks, as seen from outside
IngestClassifyStep == ing_pc = "classify" /\ ing_pc' # "classify"
IngestResolveStep == ing_pc = "resolve" /\ ing_pc' = "write"
IngestPushStep == ing_pc = "push" /\ ing_pc' = "read"
PubSendStep == pub_pc = "send" /\ pub_pc' = "sleep"
RxChangedStep == rx_pc = "changed" /\ rx_pc' = "borrow"
RxBorrowStep == rx_pc = "borrow" /\ rx_pc' = "changed"

\* new is old with value appended to the sequence under key (created if absent)
AppendedUnder(old, new, key, value) ==
    /\ DOMAIN new = DOMAIN old \cup { key }
    /\ new[key] = (IF key \in DOMAIN old THEN old[key] ELSE <<>>) \o <<value>>
    /\ \A k \in DOMAIN old \ { key } : new[k] = old[k]

\* C1: every line classified Internal(k) (resp. External(k)) appends the
\* domain key k to the sequence stored under the resolved workload id in the
\* internal (resp. external) map, creating it if absent, and leaves the other
\* map unchanged: keys are workload ids, values are sequences of domain keys.
C1_AppendsDomainUnderWorkload ==
    [][IngestPushStep =>
         IF ing_event.is_internal
         THEN /\ AppendedUnder(internal_map, internal_map',
                               ing_event.pod_name, ing_event.domain_name)
              /\ external_map' = external_map
         ELSE /\ AppendedUnder(external_map, external_map',
                               ing_event.pod_name, ing_event.domain_name)
              /\ internal_map' = internal_map]_vars

\* every sequence of old is still there in new, as a prefix
GrowsAtEnd(old, new) ==
    \A k \in DOMAIN old : k \in DOMAIN new /\ IsPrefix(old[k], new[k])

\* sum of the lengths of the sequences of a map
RECURSIVE TotalLen(_)
TotalLen(map) ==
    IF DOMAIN map = {} THEN 0
    ELSE LET k == CHOOSE x \in DOMAIN map : TRUE
         IN  Len(map[k]) + TotalLen([x \in DOMAIN map \ { k } |-> map[x]])

\* C2: the aggregated maps are append-only: in every step each stored
\* sequence is a prefix of its later value and no key is removed; every
\* insert adds exactly one entry at the end of one sequence, also when that
\* sequence already holds the same entry (no deduplication).
C2_AppendOnly ==
    [][/\ GrowsAtEnd(internal_map, internal_map')
       /\ GrowsAtEnd(external_map, external_map')
       /\ IngestPushStep =>
              TotalLen(internal_map') + TotalLen(external_map')
                 = TotalLen(internal_map) + TotalLen(external_map) + 1]_vars

\* C2 witness: the same query was ingested twice and is stored twice
C2_Witness_DuplicateStored ==
    \E k \in DOMAIN internal_map :
        /\ Len(internal_map[k]) = 2
        /\ internal_map[k][1] = internal_map[k][2]


\* C3: the broadcast is single-slot latest-value: a send overwrites whatever
\* the slot held, read or not, so every read of a consumer returns the most
\* recently published payload, never an older one.
C3_LatestValueOnly ==
    [][/\ PubSendStep => chan'.value = last_sent' /\ chan'.version = publishes'
       /\ RxBorrowStep => rx_ret' = last_sent /\ rx_observed' = publishes]_vars

\* C3 witness: a slow consumer: woken by the first publish, it read only
\* after the second publish had overwritten the slot, and got the second.
C3_Witness_SlowConsumer ==
    /\ rx_pc = "changed"
    /\ rx_version = 1
    /\ rx_observed = 2
    /\ publishes = 2
    /\ rx_ret = last_sent
    /\ rx_ret.kind = "json"

\* C4 (as stated): get_update returns only after the broadcast value changed
\* relative to what the consumer last observed (a send after its last read),
\* returns the latest payload, and never returns the initial placeholder.
C4_ReturnsOnlyAfterChange ==
    [][/\ RxChangedStep => chan.version > rx_observed
       /\ RxBorrowStep => rx_ret' = chan.value /\ rx_ret' # Placeholder]_vars

\* C4 (amended): get_update returns only after a send the receiver has not
\* yet marked as seen, i.e. a send after its previous changed() completed;
\* it marks the current version as seen, then returns the slot's payload,
\* which is always a published one, never the initial placeholder.
C4_ReturnsAfterUnseenSend ==
    [][/\ RxChangedStep => chan.version > rx_version
                           /\ rx_version' = chan.version
       /\ RxBorrowStep => /\ rx_ret' = chan.value
                          /\ rx_ret'.kind = "json"
                          /\ rx_ret' # Placeholder
                          /\ rx_version' = rx_version]_vars

\* C4 witness: changed() has let a get_update through although the consumer
\* already read the current version: the send fell between the changed()
\* and the borrow() of the previous call.
C4_Witness_WokenWithoutNewSend ==
    /\ rx_pc = "borrow"
    /\ rx_ret # Placeholder
    /\ rx_observed = chan.version

\* C5 (as stated): the two maps are never locked together: the ingestion
\* task holds one map only during the insert (not during the lookup), and
\* the publisher never holds one map while holding or acquiring the other.
C5_NeverLockedTogether ==
    /\ wlock # "none" => ing_pc = "push"
    /\ Cardinality(rlocks) <= 1
    /\ pub_pc = "read_external" => rlocks = {}

\* C5 (amended): the ingestion task holds exclusive access to exactly one
\* map, the one it inserts into, only for the insert, and nothing during the
\* read, the classification, the lookup or the wait for the lock; the
\* publisher holds no guard outside the statement that builds the snapshot,
\* keeps the internal read guard while it acquires and copies external, and
\* holds both until that statement ends; a writer and a reader never hold
\* the same map, and the publisher never waits for the ingestion task while
\* that task waits for it.
C5_LockDiscipline ==
    /\ wlock # "none" <=> ing_pc = "push"
    /\ wlock # "none" => wlock = map_to_update(ing_event)
    /\ wlock \notin rlocks
    /\ pub_pc \in { "read_internal", "send", "sleep" } => rlocks = {}
    /\ pub_pc = "read_external" => rlocks = { "internal" }
    /\ pub_pc = "drop" => rlocks = { "internal", "external" }
    /\ (ing_pc = "write" /\ map_to_update(ing_event) \in rlocks)
         => (ENABLED PubReadExternal \/ ENABLED PubDropGuards)

\* C5 witness: the publisher holds both read guards while the ingestion task
\* waits to insert
C5_Witness_BothGuardsHeld ==
    /\ rlocks = { "internal", "external" }
    /\ ing_pc = "write"

\* C6 (as stated): the two copies are not atomic together, so that a
\* published snapshot can pair map states that never held at the same time.
\* Such a pair needs an insert into the internal map after its copy and
\* before the copy of the external map: whenever the publisher is between
\* the two copies, a pending insert into the internal map can go ahead.
C6_InsertBetweenCopies ==
    (pub_pc = "read_external" /\ ing_pc = "write" /\ ing_event.is_internal)
        => ENABLED IngestWrite

\* C6 (amended): the two copies are taken at different instants, and the
\* external map can change between them, but the internal map cannot: once
\* the second copy is done the snapshot equals the aggregated state of that
\* instant, so every published snapshot is a pair the two maps held at the
\* same time.
C6_SnapshotIsSimultaneous ==
    /\ pub_pc = "read_external" => dns_data.internal = internal_map
    /\ pub_pc = "drop" => /\ dns_data.internal = internal_map
                          /\ dns_data.external = external_map

\* C6 witness: an insert into the external map landed between the two copies
C6_Witness_ExternalChangedBetweenCopies ==
    /\ pub_pc = "drop"
    /\ dns_data.external # ext_at_internal_copy
    /\ dns_data.internal # EmptyMap


\* the left-most dot-delimited label of a name
LeftmostLabel(s) ==
    IF \E i \in 1..Len(s) : s[i] = "."
    THEN SubSeq(s, 1, (CHOOSE i \in 1..Len(s) :
                         s[i] = "." /\ \A j \in 1..(i - 1) : s[j] # ".") - 1)
    ELSE s

\* a name without its one trailing root-label dot, if it has one
StripOne(s) ==
    IF s # <<>> /\ Last(s) = "." THEN SubSeq(s, 1, Len(s) - 1) ELSE s

\* C7: a query name ending in .svc.cluster.local, with or without a trailing
\* dot, and response code NOERROR classifies as Internal with the left-most
\* dot-delimited label of the name, whatever the public-suffix list holds
\* (the internal rule comes first).
C7_InternalLeftmostLabel ==
    ( /\ cq_done
      /\ cq_code = "NOERROR"
      /\ ends_with(StripOne(cq_name), SvcSuffix) )
        => cq_result = Some(LeftmostLabel(cq_name), TRUE)

\* C7 witness: a name with a trailing dot that both rules match
C7_Witness_InternalWithTrailingDot ==
    /\ cq_done
    /\ cq_name = <<"a", ".", "b">> \o SvcSuffix \o <<".">>
    /\ <<"l", "o", "c", "a", "l">> \in tlds
    /\ cq_result = Some(<<"a">>, TRUE)

\* C8: a query name the internal rule does not match, whose suffix matches an
\* entry of the public-suffix list case-insensitively, with response code
\* NOERROR classifies as External with the whole stripped name in its
\* original spelling.
C8_ExternalFullName ==
    ( /\ cq_done
      /\ cq_code = "NOERROR"
      /\ ~ends_with(StripOne(cq_name), SvcSuffix)
      /\ \E tld \in tlds :
            ends_with(to_lowercase(StripOne(cq_name)), <<".">> \o tld) )
        => cq_result = Some(StripOne(cq_name), FALSE)

\* C8 witness: a mixed-case name with a trailing dot
C8_Witness_MixedCaseExternal ==
    /\ cq_done
    /\ cq_name = <<"A", "b", ".", "C", "o", "M", ".">>
    /\ cq_result = Some(<<"A", "b", ".", "C", "o", "M">>, FALSE)

\* C9: with a response code other than NOERROR every query name, whatever
\* its suffix, is Unclassified, and the line causes no lookup and no change
\* to either aggregated map.
C9_NonSuccessIsSkipped ==
    [][( /\ IngestClassifyStep
         /\ ing_line.matched
         /\ ing_line.response_code # "NOERROR" )
          => /\ extract_domain_name(ing_line.query_name,
                                     ing_line.response_code) = None
             /\ ing_pc' = "read"
             /\ ing_event' = ing_event
             /\ lookups' = lookups
             /\ internal_map' = internal_map
             /\ external_map' = external_map]_vars

\* C9 witness: a line with a non-success code has been skipped while the
\* maps held entries
C9_Witness_NonSuccessSkipped ==
    /\ ing_pc = "read"
    /\ ing_last = "nonsuccess"
    /\ lookups = 1
    /\ internal_map # EmptyMap
    /\ external_map = EmptyMap

\* the source address without its port suffix
WithoutPort(ip) ==
    IF \E i \in 1..Len(ip) : ip[i] = ":"
    THEN SubSeq(ip, 1, (CHOOSE i \in 1..Len(ip) :
                          ip[i] = ":" /\ \A j \in (i + 1)..Len(ip) : ip[j] # ":") - 1)
    ELSE ip

\* the workloads at an address, in the order the cluster lists them
Owners(addr) ==
    { i \in 1..Len(ClusterPods) : ClusterPods[i].pod_ip = addr }

\* C10: the resolver looks the source address up without its port and
\* returns the identifier of the first matching workload, or "unknown" when
\* none matches or the lookup fails; the failure is not propagated: the
\* event is still appended, under "unknown", and the task goes on.
C10_UnknownOnFailure ==
    [][/\ IngestResolveStep =>
            LET owners == Owners(WithoutPort(ing_event.client_ip))
                first == CHOOSE i \in owners : \A j \in owners : i <= j
            IN  \/ ing_event'.pod_name = Unknown
                \/ /\ owners # {}
                   /\ ClusterPods[first].has_name
                   /\ ing_event'.pod_name = ClusterPods[first].name
       /\ (IngestPushStep /\ ing_event.pod_name = Unknown) =>
            /\ ing_pc' = "read"
            /\ IF ing_event.is_internal
               THEN AppendedUnder(internal_map, internal_map',
                                  Unknown, ing_event.domain_name)
               ELSE AppendedUnder(external_map, external_map',
                                  Unknown, ing_event.domain_name)]_vars

\* C10, the resolver and the fallback without the place of the entry: the
\* sentinel is what is stored for the event, and the task goes on.
ResolverFallsBackToUnknown ==
    [][/\ IngestResolveStep =>
            LET owners == Owners(WithoutPort(ing_event.client_ip))
                first == CHOOSE i \in owners : \A j \in owners : i <= j
            IN  \/ ing_event'.pod_name = Unknown
                \/ /\ owners # {}
                   /\ ClusterPods[first].has_name
                   /\ ing_event'.pod_name = ClusterPods[first].name
       /\ (IngestPushStep /\ ing_event.pod_name = Unknown) =>
            /\ ing_pc' = "read"
            /\ LET new == IF ing_event.is_internal
                          THEN internal_map' ELSE external_map'
               IN  Last(new[ing_event.domain_name]) = Unknown]_vars


(***************************************************************************)
(* Stream read errors.                                                     *)
(***************************************************************************)
IngestPcs == { "read", "classify", "resolve", "write", "push" }

\* a step of the Err arm of `match log`
IngestReadErrStep ==
    /\ ing_pc = "read"
    /\ ing_last' = "error"
    /\ ing_last # "error" \/ ing_pc' # "read"

\* C11: a stream read error never ends the ingestion task and changes
\* neither aggregated map: the Err arm leaves the task at the read of the
\* same stream with nothing else changed, the task is always at one of the
\* positions of its loop, and right after an error the next line of the
\* stream can be read (and is then ingested like any other line).
C11_StreamErrorIsSurvived ==
    /\ [](ing_pc \in IngestPcs)
    /\ [](ing_last = "error" /\ events < MaxEvents => ENABLED IngestReadAnyLine)
    /\ [][IngestReadErrStep =>
            /\ ing_pc' = "read"
            /\ UNCHANGED <<internal_map, external_map, wlock, rlocks,
                           ing_line, ing_event, events, lookups>>]_vars

\* an error was logged after a line had been ingested, and the task is back
\* at the read with room for further lines
C11_Witness_ErrorAfterIngest ==
    /\ ing_last = "error"
    /\ ing_pc = "read"
    /\ internal_map # EmptyMap
    /\ events < MaxEvents


(***************************************************************************)
(* Key handling.                                                           *)
(***************************************************************************)
CharKey(c) == Key("Char", c, "NONE")
CtrlC == Key("Char", "c", "CONTROL")
EscKey == Key("Esc", "", "NONE")
EnterKey == Key("Enter", "", "NONE")
BackspaceKey == Key("Backspace", "", "NONE")

\* C12: in Normal mode '/', 's' and 'e' open the pod, service and external
\* filter entry with the buffer cleared; '1' and '2' change only the tab;
\* Ctrl+c opens ClearConfirm; 'q' and Esc end the session; every other key
\* changes nothing; and none of them changes the filters, the graph or the
\* targets.
C12_NormalModeKeys ==
    [][\A key \in Keys :
         (input_mode = "Normal" /\ HandleKey(key)) =>
            /\ UNCHANGED <<filters, app_data, nodes, nodes_order, edges,
                           targets, layout_vars>>
            /\ running' = (key \notin { CharKey("q"), EscKey })
            /\ CASE key = CharKey("/") ->
                      /\ input_mode' = "FilterPod"
                      /\ input_buffer' = <<>>
                      /\ tab' = tab
                 [] key = CharKey("s") ->
                      /\ input_mode' = "FilterService"
                      /\ input_buffer' = <<>>
                      /\ tab' = tab
                 [] key = CharKey("e") ->
                      /\ input_mode' = "FilterExternal"
                      /\ input_buffer' = <<>>
                      /\ tab' = tab
                 [] key = CharKey("1") ->
                      tab' = 0 /\ UNCHANGED <<input_mode, input_buffer>>
                 [] key = CharKey("2") ->
                      tab' = 1 /\ UNCHANGED <<input_mode, input_buffer>>
                 [] key = CtrlC ->
                      input_mode' = "ClearConfirm" /\ UNCHANGED <<tab, input_buffer>>
                 [] OTHER ->
                      UNCHANGED <<tab, input_mode, input_buffer>>]_vars

\* with a pod filter in force, '2' has switched the tab and 's' has opened
\* the service filter entry
C12_Witness_TabThenServiceEntry ==
    /\ input_mode = "FilterService"
    /\ input_buffer = <<>>
    /\ tab = 1
    /\ keys = 2
    /\ filters.pod = FilterSome(Q1)

\* the text between the first and the last non-blank character of b
Stripped(b) ==
    LET inked == { i \in 1..Len(b) : b[i] # " " }
    IN  IF inked = {} THEN <<>>
        ELSE SubSeq(b, CHOOSE i \in inked : \A j \in inked : i <= j,
                       CHOOSE i \in inked : \A j \in inked : i >= j)

\* the field of Filters an entry mode commits to
FieldOf(mode) ==
    CASE mode = "FilterPod" -> "pod"
      [] mode = "FilterService" -> "service"
      [] mode = "FilterExternal" -> "external"

\* every node of the three collections has its slot on its ring as target
TargetsFollowLayers ==
    /\ \A i \in 1..Len(lay_externals') :
         targets'[lay_externals'[i]] = OnCircle(r_ext, i - 1, Len(lay_externals'))
    /\ \A i \in 1..Len(lay_pods') :
         targets'[lay_pods'[i]] = OnCircle(r_pod, i - 1, Len(lay_pods'))
    /\ \A i \in 1..Len(lay_services') :
         targets'[lay_services'[i]] = OnCircle(r_svc, i - 1, Len(lay_services'))

\* what every commit does besides setting the filters
CommitReturnsAndRelayouts ==
    /\ input_mode' = "Normal"
    /\ input_buffer' = <<>>
    /\ running'
    /\ allowed_pods' = AllowedPods(app_data, filters', AllowedNone)
    /\ TargetsFollowLayers

\* C13 as stated: Enter in an entry mode with buffer b makes the filter b
\* when b is non-empty and clears it when b is empty, the other two
\* filters unchanged; in ClearConfirm all three filters are reset; the mode
\* returns to Normal and the targets are recomputed for the new filters.
C13_CommitStoresBuffer ==
    [][(input_mode # "Normal" /\ HandleKey(EnterKey)) =>
         /\ CommitReturnsAndRelayouts
         /\ IF input_mode = "ClearConfirm"
            THEN filters' = FiltersDefault
            ELSE /\ filters'[FieldOf(input_mode)] =
                      IF input_buffer # <<>> THEN FilterSome(input_buffer)
                      ELSE FilterNone
                 /\ \A field \in { "pod", "service", "external" } \
                                    { FieldOf(input_mode) } :
                      filters'[field] = filters[field]]_vars

\* C13, amended: the filter becomes the buffer with leading and trailing
\* white space removed, and is cleared when nothing is left of it (an
\* empty or all-blank buffer); the rest as stated.
C13_CommitStoresTrimmedBuffer ==
    [][(input_mode # "Normal" /\ HandleKey(EnterKey)) =>
         /\ CommitReturnsAndRelayouts
         /\ IF input_mode = "ClearConfirm"
            THEN filters' = FiltersDefault
            ELSE /\ filters'[FieldOf(input_mode)] =
                      IF Stripped(input_buffer) # <<>>
                      THEN FilterSome(Stripped(input_buffer))
                      ELSE FilterNone
                 /\ \A field \in { "pod", "service", "external" } \
                                    { FieldOf(input_mode) } :
                      filters'[field] = filters[field]]_vars

\* a service filter committed from a four-key entry next to a pod filter
\* that stayed as it was
C13_Witness_PaddedCommitKeepsOthers ==
    /\ input_mode = "Normal"
    /\ keys = 4
    /\ filters.pod = FilterSome(Q1)
    /\ filters.service = FilterSome(<<"s">>)
    /\ ~filters.external.some
    /\ allowed_pods = AllowedSome({ Q1 })


\* C14: Esc in an entry mode or in ClearConfirm returns to Normal with the
\* buffer discarded, leaves filters, graph and targets as they were and
\* keeps the session running; Backspace removes only the last character of
\* the buffer and a character key appends its character, neither changing
\* the mode or the filters.
C14_CancelDeleteAppend ==
    [][\A key \in Keys :
         (input_mode # "Normal" /\ HandleKey(key)) =>
            CASE key = EscKey ->
                   /\ input_mode' = "Normal"
                   /\ input_buffer' = <<>>
                   /\ running'
                   /\ UNCHANGED <<filters, app_data, nodes, nodes_order, edges,
                                  targets, layout_vars, tab>>
              [] key = BackspaceKey ->
                   /\ IF input_buffer = <<>> THEN input_buffer' = <<>>
                      ELSE /\ Len(input_buffer') = Len(input_buffer) - 1
                           /\ IsPrefix(input_buffer', input_buffer)
                   /\ UNCHANGED <<input_mode, filters, targets>>
              [] key.code = "Char" ->
                   /\ input_buffer' = input_buffer \o <<key.ch>>
                   /\ UNCHANGED <<input_mode, filters, targets>>
              [] OTHER -> TRUE]_vars

\* three characters typed into the pod filter entry and the last two deleted
\* again, or the like: the buffer holds one character after four keys
C14_Witness_TypedAndDeleted ==
    /\ input_mode = "FilterPod"
    /\ input_buffer = <<"q">>
    /\ keys = 4
    /\ filters.service = FilterSome(<<"s">>)

\* C15: the session ends only by a quit key in Normal mode: a step that
\* stops the loop is a step of handle_key for 'q' or Esc taken in Normal
\* mode, and in an entry mode or in ClearConfirm no key stops it.
C15_QuitOnlyFromNormal ==
    [][/\ (running /\ ~running') =>
            /\ input_mode = "Normal"
            /\ HandleKey(CharKey("q")) \/ HandleKey(EscKey)
       /\ \A key \in Keys :
            (input_mode # "Normal" /\ HandleKey(key)) => running']_vars

\* 'q' typed into the pod filter entry, the session still running
C15_Witness_QuitKeyTypedInEntry ==
    /\ running
    /\ tui_pc = "loop"
    /\ input_mode = "FilterPod"
    /\ input_buffer = <<"q">>

\* the allowed set of a Filters value over a snapshot, the three
\* constraints taken in the order external, service, pod
AllowedOf(f, data) ==
    LET constraints ==
            (IF f.external.some
             THEN { KeysWithElementContaining(data.external, f.external.val) }
             ELSE {})
            \cup (IF f.service.some
                  THEN { KeysWithElementContaining(data.internal, f.service.val) }
                  ELSE {})
            \cup (IF f.pod.some THEN { PodFilter(data, f.pod.val).set } ELSE {})
    IN  IF constraints = {} THEN AllowedNone
        ELSE AllowedSome({ w \in UNION constraints :
                             \A c \in constraints : w \in c })

\* C18: for a fixed snapshot the allowed set is a function of the current
\* Filters value alone, whatever commits led to it: committing a filter
\* twice, or the same filters in another order, ends with the same allowed
\* set.
C18_AllowedDependsOnFiltersOnly ==
    tui_pc = "loop" => allowed_pods = AllowedOf(filters, app_data)

\* a pod and a service filter in force (reached by committing them in
\* either order), external filter unset
C18_Witness_TwoFiltersCommitted ==
    /\ filters.pod = FilterSome(Q1)
    /\ filters.service = FilterSome(<<"s">>)
    /\ ~filters.external.some
    /\ allowed_pods = AllowedSome({ Q1 })
    /\ keys = 3


(***************************************************************************)
(* Filters and layout over every snapshot.                                 *)
(***************************************************************************)
Workloads(data) == DOMAIN data.internal \cup DOMAIN data.external

\* the allowed set as the filter rules describe it: the pod filter keeps
\* the workloads whose id contains it
AllowedBySubstring(f, data) ==
    LET by_pod == { w \in Workloads(data) : contains(w, f.pod.val) }
        by_service == KeysWithElementContaining(data.internal, f.service.val)
        by_external == KeysWithElementContaining(data.external, f.external.val)
    IN  IF ~f.pod.some /\ ~f.service.some /\ ~f.external.some
        THEN AllowedNone
        ELSE AllowedSome({ w \in Workloads(data) :
                             /\ f.pod.some => w \in by_pod
                             /\ f.service.some => w \in by_service
                             /\ f.external.some => w \in by_external })

\* C16: the allowed set of every layout is unconstrained with no filter
\* set, and otherwise the intersection of the workloads whose id contains
\* the pod filter, those with an internal domain containing the service
\* filter and those with an external domain containing the external filter
\* (each only if set).
C16_AllowedIsSubstringIntersection ==
    [][allowed_pods' = AllowedBySubstring(filters', app_data')]_vars

\* the same with the pod filter kept out of it: the service and external
\* constraints are the substring intersections described
AllowedWithoutPodFilterIsIntersection ==
    [][~filters'.pod.some =>
          allowed_pods' = AllowedBySubstring(filters', app_data')]_vars

Placed == Range(lay_externals) \cup Range(lay_pods) \cup Range(lay_services)

EdgeSet == Range(edges)

\* C17: given the allowed set, the layout places a Service node iff some
\* allowed workload has an edge to it, an External node iff it has an edge
\* to some allowed workload, and a Pod node iff it is in the allowed set;
\* with no filter set every node is placed, and with an empty allowed set
\* no Service or External node is; each node is placed in the collection
\* of its kind.
C17_LayoutVisibility ==
    /\ \A id \in DOMAIN nodes :
         /\ nodes[id] = "Service" =>
              (id \in Placed <=>
                 (~allowed_pods.some
                    \/ \E e \in EdgeSet :
                         e.from \in allowed_pods.set /\ e.to = id))
         /\ nodes[id] = "External" =>
              (id \in Placed <=>
                 (~allowed_pods.some
                    \/ \E e \in EdgeSet :
                         e.from = id /\ e.to \in allowed_pods.set))
         /\ nodes[id] = "Pod" =>
              (id \in Placed <=>
                 (~allowed_pods.some \/ id \in allowed_pods.set))
    /\ filters = FiltersDefault => Placed = DOMAIN nodes
    /\ allowed_pods = AllowedSome({}) =>
         \A id \in Placed : nodes[id] \notin { "Service", "External" }
    /\ \A id \in Range(lay_externals) : nodes[id] = "External"
    /\ \A id \in Range(lay_pods) : nodes[id] = "Pod"
    /\ \A id \in Range(lay_services) : nodes[id] = "Service"

\* two pods of one service under the pod filter "q1": the service and q1
\* are placed, q2 is not
C17_Witness_OnePodOfTwoAllowed ==
    /\ allowed_pods = AllowedSome({ Q1 })
    /\ Q2 \in DOMAIN nodes
    /\ Q2 \notin Placed
    /\ Q1 \in Range(lay_pods)
    /\ S1 \in Range(lay_services)


(***************************************************************************)
(* Graph rebuild.                                                          *)
(***************************************************************************)
\* the longest list of a snapshot
MaxListLen == 2

\* the (workload, position) pairs of the entries of a map
Entries(map) == { <<w, i>> \in (DOMAIN map) \X (1..MaxListLen) :
                    i <= Len(map[w]) }

InternalDomains(data) ==
    { data.internal[e[1]][e[2]] : e \in Entries(data.internal) }

ExternalDomains(data) ==
    { data.external[e[1]][e[2]] : e \in Entries(data.external) }

Count(seq, x) == Cardinality({ i \in 1..Len(seq) : seq[i] = x })

\* the number of entries of a map that pair workload w with domain d
Pairings(map, w, d) ==
    IF w \in DOMAIN map THEN Count(map[w], d) ELSE 0

Ids(data) ==
    Workloads(data) \cup InternalDomains(data) \cup ExternalDomains(data)

\* no id of the snapshot occurs in two of the roles workload, internal
\* domain, external domain
RolesDisjoint(data) ==
    /\ Workloads(data) \cap InternalDomains(data) = {}
    /\ Workloads(data) \cap ExternalDomains(data) = {}
    /\ InternalDomains(data) \cap ExternalDomains(data) = {}

\* the graph is the one of the snapshot: a Pod node per workload, a Service
\* node per internal domain, an External node per external domain and
\* nothing else; an edge workload -> domain per internal entry and an edge
\* domain -> workload per external entry, repeated entries repeated
GraphOf(data, kinds, edge_list) ==
    /\ DOMAIN kinds = Ids(data)
    /\ \A w \in Workloads(data) : kinds[w] = "Pod"
    /\ \A d \in InternalDomains(data) : kinds[d] = "Service"
    /\ \A d \in ExternalDomains(data) : kinds[d] = "External"
    /\ \A from \in Ids(data), to \in Ids(data) :
         Count(edge_list, Edge(from, to)) =
             Pairings(data.internal, from, to) + Pairings(data.external, to, from)

\* C19: after update_data(S) the graph is the one of S alone, whatever the
\* graph was before: Pod, Service and External nodes for the workloads,
\* internal domains and external domains of S, and exactly one edge per
\* entry, in the direction Pod -> Service or External -> Pod.
C19_GraphRebuiltFromSnapshot ==
    [][GraphOf(app_data', nodes', edges')]_vars

\* the same for the snapshots in which no id has two roles
GraphRebuiltWhenRolesDisjoint ==
    [][RolesDisjoint(app_data') => GraphOf(app_data', nodes', edges')]_vars

\* the ids and the edges, by id, are those of the snapshot in every case
GraphIdsAndEdgesOfSnapshot ==
    [][/\ DOMAIN nodes' = Ids(app_data')
       /\ \A from \in Ids(app_data'), to \in Ids(app_data') :
            Count(edges', Edge(from, to)) =
                Pairings(app_data'.internal, from, to)
                    + Pairings(app_data'.external, to, from)]_vars

\* C20: every edge of every rebuilt graph points inward: the ring of its
\* `from` node is at least as far out as the ring of its `to` node.
C20_EdgesPointInward ==
    \A i \in 1..Len(edges) :
        Radius(nodes[edges[i].from]) >= Radius(nodes[edges[i].to])

\* the same for the snapshots in which no id has two roles
EdgesPointInwardWhenRolesDisjoint ==
    RolesDisjoint(app_data) => C20_EdgesPointInward


(***************************************************************************)
(* Ring layout.                                                            *)
(***************************************************************************)
\* the code points of the characters of the node ids
CharCode(c) ==
    CASE c = "1" -> 49 [] c = "2" -> 50 [] c = "e" -> 101
      [] c = "q" -> 113 [] c = "s" -> 115 [] OTHER -> 0

\* String's Ord: s sorts before t
RECURSIVE StrLess(_, _)
StrLess(s, t) ==
    IF t = <<>> THEN FALSE
    ELSE IF s = <<>> THEN TRUE
    ELSE IF Head(s) # Head(t) THEN CharCode(Head(s)) < CharCode(Head(t))
    ELSE StrLess(Tail(s), Tail(t))

IsSorted(ids) ==
    \A i \in 1..Len(ids), j \in 1..Len(ids) : i < j => StrLess(ids[i], ids[j])

\* the nodes of `kind` that the layout keeps for the current allowed set
VisibleOfKind(kind) ==
    { id \in DOMAIN nodes :
        nodes[id] = kind /\ Kept(kind, id, allowed_pods, edges) }

\* the ids of a collection are the visible nodes of its kind, each once,
\* and the i-th has slot i of Len(ids) on the ring of the kind
RingFilled(ids, kind) ==
    /\ Range(ids) = VisibleOfKind(kind)
    /\ Len(ids) = Cardinality(VisibleOfKind(kind))
    /\ \A i \in 1..Len(ids) :
         targets[ids[i]] = OnCircle(Radius(kind), i - 1, Len(ids))

\* C21: after every layout pass each ring holds the visible nodes of its
\* kind in sorted id order, the i-th of N at slot i of N on the ring's
\* radius, so that the targets depend on the visible set alone and not on
\* the order in which the node map hands out its entries.
C21_RingsInSortedOrder ==
    /\ RingFilled(lay_externals, "External") /\ IsSorted(lay_externals)
    /\ RingFilled(lay_pods, "Pod") /\ IsSorted(lay_pods)
    /\ RingFilled(lay_services, "Service") /\ IsSorted(lay_services)

\* without the order: each ring holds its visible nodes at equally spaced
\* slots on its radius
RingsEvenlySpaced ==
    /\ RingFilled(lay_externals, "External")
    /\ RingFilled(lay_pods, "Pod")
    /\ RingFilled(lay_services, "Service")


(***************************************************************************)
(* The session from set-up to return: what it holds of the terminal.       *)
(***************************************************************************)
\* what is held when `stage` of the set-up returns its error through `?`
\* (lines 52-56): nothing after enable_raw_mode, raw mode and whatever
\* of the two commands got through after execute!, everything after
\* Terminal::new
HeldAfterSetupError(stage) ==
    CASE stage = "enable_raw_mode" -> { {} }
      [] stage = "execute" ->
            { {"raw_mode"}, {"raw_mode", "alternate_screen"},
              TerminalResources }
      [] OTHER -> { TerminalResources }

\* an error in the set-up: test returns Err
SetupFails ==
    /\ tui_pc = "setup"
    /\ \E stage \in {"enable_raw_mode", "execute", "Terminal::new"} :
         terminal' \in HeldAfterSetupError(stage)
    /\ tui_pc' = "err"
    /\ UNCHANGED <<running, keys, app_vars, anim_vars, layout_vars,
                   classifier_vars, pipeline_vars>>

\* terminal.draw(..)?, event::poll(..)?, event::read()? and
\* handle_key(..)? return the error at once: nothing is released
HeldAfterLoopError(held) == held

\* an error of draw, poll or read in an iteration of the loop (lines 67-73);
\* handle_key has no path that returns Err
LoopFails ==
    /\ tui_pc = "loop"
    /\ running
    /\ \E stage \in {"draw", "poll", "read"} :
         terminal' = HeldAfterLoopError(terminal)
    /\ tui_pc' = "err"
    /\ UNCHANGED <<running, keys, app_vars, anim_vars, layout_vars,
                   classifier_vars, pipeline_vars>>

\* `while running` finds running false (line 65)
LoopExit ==
    /\ tui_pc = "loop"
    /\ ~running
    /\ tui_pc' = "teardown"
    /\ UNCHANGED <<terminal, running, keys, app_vars, anim_vars,
                   layout_vars, classifier_vars, pipeline_vars>>

\* disable_raw_mode()?, execute!(LeaveAlternateScreen, DisableMouseCapture)?,
\* terminal.show_cursor()?, Ok(())  (lines 79-87)
Teardown ==
    /\ tui_pc = "teardown"
    /\ terminal' = {}
    /\ tui_pc' = "ok"
    /\ UNCHANGED <<running, keys, app_vars, anim_vars, layout_vars,
                   classifier_vars, pipeline_vars>>

\* what is still held when `stage` of the teardown returns its error
HeldAfterTeardownError(stage, held) ==
    CASE stage = "disable_raw_mode" -> { held }
      [] stage = "execute" ->
            { held \ {"raw_mode"},
              held \ {"raw_mode", "alternate_screen"},
              {} }
      [] OTHER -> { {} }

TeardownFails ==
    /\ tui_pc = "teardown"
    /\ \E stage \in {"disable_raw_mode", "execute", "show_cursor"} :
         terminal' \in HeldAfterTeardownError(stage, terminal)
    /\ tui_pc' = "err"
    /\ UNCHANGED <<running, keys, app_vars, anim_vars, layout_vars,
                   classifier_vars, pipeline_vars>>

SessionNext ==
    \/ SessionSetup
    \/ SetupFails
    \/ TuiKey
    \/ LoopFails
    \/ LoopExit
    \/ Teardown
    \/ TeardownFails

SessionSpec == TuiInit /\ [][SessionNext]_vars

\* C22: whatever the session acquired at its start (raw mode, alternate
\* screen, mouse capture) is released on every way out of the loop: after
\* the normal quit, and when a draw, poll, read or key-handling error
\* makes the session return early.
C22_TerminalReleasedOnEveryExit ==
    /\ [](tui_pc = "ok" => terminal = {})
    /\ [][tui_pc = "loop" /\ tui_pc' = "err" => terminal' = {}]_vars

\* the normal quit releases everything
TerminalReleasedOnQuit ==
    /\ [](tui_pc = "ok" => terminal = {})
    /\ [][tui_pc = "loop" /\ ~running => tui_pc' = "teardown"]_vars
    /\ [](tui_pc = "loop" => terminal = TerminalResources)


(***************************************************************************)
(* animate: the blend of the positions towards the targets.                *)
(***************************************************************************)
\* calls of animate in a behaviour
MaxTicks == 40

\* let speed = 8.0
speed == 8

\* times between two calls of animate, in milliseconds: none at all, one
\* tick, a late frame and a session that was suspended for five seconds
DtValues == {0, tick_rate, 87, 5000}

\* a blend factor above one
BlendOverdriven(ms) == <<9, 8>>

\* 1.0 - (-speed * dt).exp() as a fraction <<numerator, denominator>>:
\* 0 for dt = 0, 0.1201 for 16 ms, 0.5014 for 87 ms, and exactly 1.0 once
\* exp(-speed * dt) is below 2^-54, that is for speed * dt above 37.43
Blend(ms) ==
    LET e == speed * ms IN
    CASE e = 0 -> <<0, 1>>
      [] e = 128 -> <<3, 25>>
      [] e = 696 -> <<1, 2>>
      [] e >= 37430 -> <<1, 1>>

\* p / q rounded to the nearest point of the grid (q > 0)
Round(p, q) == (2 * p + q) \div (2 * q)

\* n.x += (n.tx - n.x) * k, the result rounded to the grid
BlendStep(x, tx, k) == x + Round((tx - x) * k[1], k[2])

\* (cos, sin) of the angle i * TAU / n, for the rings of one and two nodes
UnitVector(i, n) ==
    CASE n = 1 -> <<1, 0>>
      [] n = 2 /\ i = 0 -> <<1, 0>>
      [] n = 2 /\ i = 1 -> <<-1, 0>>

\* (tx, ty) in hundredths
TargetPoint(target, rng) ==
    IF target.n = 0 THEN rng[target.i]
    ELSE <<target.ring * UnitVector(target.i, target.n)[1],
           target.ring * UnitVector(target.i, target.n)[2]>>

\* the positions after animate(&mut app) with `ms` since the last tick
animate(pos, tgts, rng, ms) ==
    [id \in DOMAIN pos |->
        <<BlendStep(pos[id][1], TargetPoint(tgts[id], rng)[1], Blend(ms)),
          BlendStep(pos[id][2], TargetPoint(tgts[id], rng)[2], Blend(ms))>>]

\* animate(&mut app) at the end of an iteration of the loop
Animate ==
    /\ tui_pc = "loop"
    /\ running
    /\ ticks < MaxTicks
    /\ ticks' = ticks + 1
    /\ positions' = animate(positions, targets, rng_seq, dt)
    /\ UNCHANGED <<tui_pc, terminal, running, keys, app_data, nodes,
                   nodes_order, edges, targets, rng_seq, dt, filters, tab,
                   input_mode, input_buffer, layout_vars, classifier_vars,
                   pipeline_vars>>

\* points the generator can hand out: a corner, a point of the pod ring,
\* a point near the right edge
SprinklePoints == { <<-100, -100>>, <<55, 0>>, <<99, 42>> }

\* the session under any sequence of the generator and any fixed time
\* between two ticks
AnimInit ==
    /\ tlds = IanaSample
    /\ ClassifierIdle
    /\ PipelineInit
    /\ tui_pc = "setup"
    /\ terminal = {}
    /\ running = FALSE
    /\ keys = 0
    /\ app_data = DnsData(EmptyMap, EmptyMap)
    /\ nodes = <<>>
    /\ nodes_order = <<>>
    /\ positions = <<>>
    /\ rng_seq \in [1..3 -> SprinklePoints]
    /\ dt \in DtValues
    /\ ticks = 0
    /\ edges = <<>>
    /\ targets = <<>>
    /\ filters = FiltersDefault
    /\ tab = 0
    /\ input_mode = "Normal"
    /\ input_buffer = <<>>
    /\ allowed_pods = AllowedNone
    /\ lay_externals = <<>>
    /\ lay_pods = <<>>
    /\ lay_services = <<>>

AnimNext ==
    \/ SessionSetup
    \/ Animate

AnimSpec == AnimInit /\ [][AnimNext]_vars

\* the distance below which a node counts as arrived, in hundredths
Epsilon == 5

Abs(a) == IF a < 0 THEN -a ELSE a

\* the square of the distance of a point to a target
Dist2(p, t) == (t[1] - p[1]) * (t[1] - p[1]) + (t[2] - p[2]) * (t[2] - p[2])

TargetOf(id) == TargetPoint(targets[id], rng_seq)

\* a coordinate that moved from a to b did not pass the target t
NotPast(a, b, t) == (t - a) * (t - b) >= 0 /\ Abs(t - b) <= Abs(t - a)

NoOvershoot(id) ==
    /\ NotPast(positions[id][1], positions'[id][1], TargetOf(id)[1])
    /\ NotPast(positions[id][2], positions'[id][2], TargetOf(id)[2])

Within(id, eps) ==
    /\ Abs(TargetOf(id)[1] - positions[id][1]) < eps
    /\ Abs(TargetOf(id)[2] - positions[id][2]) < eps

AnimateStep == ticks' = ticks + 1

\* C23: with the target fixed and a fixed positive time between ticks,
\* every application of animate strictly decreases the distance of every
\* node to its target and never passes the target, every node is within
\* Epsilon of its target after MaxTicks ticks, and the step changes
\* positions only, never targets.
C23_EveryTickStrictlyCloser ==
    /\ [][AnimateStep /\ dt > 0 =>
            /\ targets' = targets
            /\ \A id \in DOMAIN nodes :
                 /\ Dist2(positions'[id], TargetOf(id))
                      < Dist2(positions[id], TargetOf(id))
                 /\ NoOvershoot(id)]_vars
    /\ [](dt > 0 /\ ticks = MaxTicks =>
            \A id \in DOMAIN nodes : Within(id, Epsilon))

\* C23 as the code has it: a tick never increases the distance, strictly
\* decreases it while the node is Epsilon or more away in some coordinate,
\* and never passes the target; every node is within Epsilon of its target
\* after MaxTicks ticks; positions are all that changes.  A node at its
\* target, or closer to it than the rounding of the step, stays where it is.
C23_EveryTickNoFarther ==
    /\ [][AnimateStep /\ dt > 0 =>
            /\ targets' = targets
            /\ UNCHANGED <<nodes, edges, filters, layout_vars>>
            /\ \A id \in DOMAIN nodes :
                 /\ Dist2(positions'[id], TargetOf(id))
                      <= Dist2(positions[id], TargetOf(id))
                 /\ ~Within(id, Epsilon) =>
                      Dist2(positions'[id], TargetOf(id))
                        < Dist2(positions[id], TargetOf(id))
                 /\ NoOvershoot(id)]_vars
    /\ [](dt > 0 /\ ticks = MaxTicks =>
            \A id \in DOMAIN nodes : Within(id, Epsilon))

\* one tick apart at 16 ms, all ticks done: every node has arrived within
\* Epsilon and one of them rests short of its target
C23_Witness_StalledShortOfTarget ==
    /\ dt = tick_rate
    /\ ticks = MaxTicks
    /\ \A id \in DOMAIN nodes : Within(id, Epsilon)
    /\ \E id \in DOMAIN nodes : positions[id] # TargetOf(id)


(***************************************************************************)
(* Trailing dots of the query name.                                        *)
(***************************************************************************)
\* a name without any of its trailing dots
StripAll(s) ==
    IF \E i \in 1..Len(s) : s[i] # "."
    THEN SubSeq(s, 1, CHOOSE i \in 1..Len(s) :
                        s[i] # "." /\ \A j \in (i + 1)..Len(s) : s[j] = ".")
    ELSE <<>>

\* the classification rules applied to a name `q` as it is
RulesOn(q, code) ==
    IF code # "NOERROR" THEN None
    ELSE IF ends_with(q, SvcSuffix) THEN Some(LeftmostLabel(q), TRUE)
    ELSE IF \E tld \in TLDS : ends_with(to_lowercase(q), <<".">> \o tld)
    THEN Some(q, FALSE)
    ELSE None

\* C24: the classifier strips exactly one trailing '.' from the query name
\* and no more: the rules are applied to the name without its last dot, so
\* that of a name ending in two or more dots the remaining dots are part of
\* the name that is matched and returned.
C24_StripsOneTrailingDot ==
    cq_done => cq_result = RulesOn(StripOne(cq_name), cq_code)

\* C24 as the code has it: every trailing '.' is stripped before the rules
\* are applied, and none of them is part of the key returned.
C24_StripsEveryTrailingDot ==
    cq_done => cq_result = RulesOn(StripAll(cq_name), cq_code)

\* a.com.. has been classified as External a.com
C24_Witness_TwoDotsStripped ==
    /\ cq_done
    /\ cq_name = <<"a", ".", "c", "o", "m", ".", ".">>
    /\ cq_result = Some(<<"a", ".", "c", "o", "m">>, FALSE)


(***************************************************************************)
(* The buffer outside the entry modes.                                     *)
(***************************************************************************)
\* C25: after any sequence of keys from the initial state the buffer is
\* empty whenever the mode is Normal; hence ClearConfirm, which is entered
\* without a clear, and every entry mode start with an empty buffer.
C25_NormalModeBufferEmpty ==
    /\ [](input_mode = "Normal" => input_buffer = <<>>)
    /\ [][input_mode = "Normal" /\ input_mode' # "Normal" =>
            input_buffer' = <<>>]_vars

\* ClearConfirm entered with an empty buffer after "q" was typed into the
\* buffer and committed as the pod filter
C25_Witness_ClearConfirmAfterCommit ==
    /\ input_mode = "ClearConfirm"
    /\ input_buffer = <<>>
    /\ filters.pod = FilterSome(<<"q">>)


(***************************************************************************)
(* What is drawn and what is laid out.                                     *)
(***************************************************************************)
\* filter.as_ref().map(|s| id.contains(s)).unwrap_or(true)
Matches(filter, id) == filter.some => contains(id, filter.val)

\* node_visible(app, n): the test draw_graph makes before it draws a node
node_visible(f, id, kind) ==
    IF f = FiltersDefault THEN TRUE
    ELSE CASE kind = "Pod" ->
                /\ Matches(f.pod, id)
                /\ Matches(f.service, id)
                /\ Matches(f.external, id)
           [] kind = "Service" -> Matches(f.service, id)
           [] kind = "External" -> Matches(f.external, id)

\* the nodes draw_graph draws
Drawn == { id \in DOMAIN nodes : node_visible(filters, id, nodes[id]) }

\* C26: for every snapshot and every Filters value the nodes that the
\* renderer's visibility test lets through are the nodes that the layout
\* has placed on the rings.
C26_DrawnAreThePlaced ==
    Drawn = Placed

\* with no filter set both are all the nodes
DrawnArePlacedWithoutFilters ==
    filters = FiltersDefault => Drawn = DOMAIN nodes /\ Placed = DOMAIN nodes


(***************************************************************************)
(* Published snapshots against the aggregated maps.                        *)
(***************************************************************************)
\* every sequence of `old` is a prefix of the sequence under its key in `new`
MapPrefix(old, new) ==
    /\ DOMAIN old \subseteq DOMAIN new
    /\ \A k \in DOMAIN old : IsPrefix(old[k], new[k])

PubReadInternalStep == pub_pc = "read_internal" /\ pub_pc' = "read_external"
PubReadExternalStep == pub_pc = "read_external" /\ pub_pc' = "drop"

\* C27: under any interleaving of the ingestion task and the publisher,
\* each map of a published snapshot is a state that map held, taken while
\* no insert into it was under way, and successive snapshots are monotone:
\* every sequence of an earlier snapshot is a prefix of the sequence under
\* the same key in every later one (and in the aggregated map itself).
C27_SnapshotsHeldAndMonotone ==
    /\ [][/\ PubReadInternalStep =>
               dns_data'.internal = internal_map /\ wlock # "internal"
          /\ PubReadExternalStep =>
               /\ dns_data'.external = external_map /\ wlock # "external"
               /\ dns_data'.internal = dns_data.internal
          /\ pub_pc \in { "drop", "send" } => dns_data' = dns_data
          /\ PubSendStep =>
               /\ last_sent' = to_string(dns_data)
               /\ MapPrefix(last_sent.internal, last_sent'.internal)
               /\ MapPrefix(last_sent.external, last_sent'.external)]_vars
    /\ [](/\ MapPrefix(last_sent.internal, internal_map)
          /\ MapPrefix(last_sent.external, external_map)
          /\ pub_pc \in { "read_external", "drop", "send" } =>
               MapPrefix(dns_data.internal, internal_map)
          /\ pub_pc \in { "drop", "send" } =>
               MapPrefix(dns_data.external, external_map))

\* the second snapshot, about to be sent, has more than the first
C27_Witness_SecondSnapshotExtendsFirst ==
    /\ pub_pc = "send"
    /\ publishes = 1
    /\ last_sent.internal # EmptyMap
    /\ dns_data.internal # last_sent.internal

=============================================================================
